---------------------------- MODULE Spec2Model ----------------------------
(***************************************************************************)
(* grobid-onyx-infra: the SSE event manager (src/src/events.py), the SSE   *)
(* session generator and the container lifecycle (src/src/main.py).        *)
(*                                                                         *)
(* Scheduling.  Everything runs as coroutines of one asyncio event loop.   *)
(* EventManager.emit / subscribe / unsubscribe contain no await other than *)
(* `async with self._lock`, and no await inside the locked region, so the  *)
(* lock is never held across a suspension point: asyncio.Lock.acquire()    *)
(* then always takes its fast path and returns without yielding to the     *)
(* loop.  Each of the three methods therefore runs to completion as one    *)
(* step of the loop, and is one action here.  The suspension points of a   *)
(* session are its `yield`s and its `await wait_for(queue.get())`.         *)
(***************************************************************************)
EXTENDS Integers, Sequences, FiniteSets, TLC

(* ------------------------------ bounds --------------------------------- *)
\* max_history of the EventManager singleton (100 in the source), scaled down
MaxHistory == 2
\* asyncio.Queue(maxsize=...) of a subscription (100 in the source), scaled down
QueueMaxSize == 2
\* how many events are published in a run
MaxEvents == 3
\* how many events are published in a run of EvictionSpec: enough for an emit
\* to follow the emit that evicts a channel
MaxEvictionEvents == 4
\* how many SSE sessions (Queue objects) are created in a run
MaxChannels == 2
\* largest limit passed to the history query
MaxLimit == 1
\* range(180) of the startup wait in lifespan, scaled down
StartupPolls == 3
\* range(120) of the wait in restart_containers, scaled down
RestartPolls == 2
\* how many restart and processing requests are made in a run of ServingSpec
MaxRequests == 2
\* how many restart and processing requests follow a startup in LifecycleSpec
MaxLifecycleRequests == 1
\* tasks that call emit, subscribe and unsubscribe
MaxTasks == 2
\* sessions that stream beside the history queries of ApiSpec
MaxHistorySessions == 1

\* default of get_history(limit) and of GET /events/history
DefaultLimit == 50

\* the type tag of an event; emit never branches on it
EventTypes == {"extraction_start"}

\* Queue objects are compared by identity: a channel is its allocation number.
\* 0 is a Queue that was created by somebody else and never registered.
ForeignChan == 0
Channels == 1..MaxChannels
Limits == (0 - 1)..MaxLimit
Tasks == 1..MaxTasks
\* restart requests, numbered in the order they are accepted
Reqs == 1..MaxRequests

VARIABLES
    history,      \* EventManager.history     (deque, oldest first)
    subscribers,  \* EventManager.subscribers (list of Queue objects)
    queue,        \* the content of every Queue object created by subscribe
    nextChan,     \* the next Queue object subscribe will create
    sess,         \* each event_generator: "new", "streaming", "closed"
    ack,          \* the subscriber count each session sent in its "connected" record
    delivered,    \* the events each session has yielded to its client, in order
    held,         \* what was taken from each mailbox and has not been yielded
    published,    \* every event emit has built, in call order (observer)
    subAt,        \* Len(published) when the channel was registered (observer)
    evictedAt,    \* Len(published) after the emit that evicted the channel, else 0
    unsubCalls,   \* unsubscribe calls made by each session's finally block
    last,         \* the latest call of the event manager, NoCall after a session's turn
    lpc,          \* where lifespan stands
    i,            \* the loop variable of lifespan's wait
    ctl,          \* the readiness state the controller code is in
    onyxStatus,   \* the status last passed to set_status
    pre,          \* result of start_containers' own probe at startup (observer)
    broke,        \* the startup wait left its loop by break (observer)
    fin,          \* result of the probe made after the startup wait (observer)
    starts,       \* docker compose up invocations
    stops,        \* docker compose down invocations
    sleeps,       \* asyncio.sleep(1) calls of the startup wait
    lateProbes,   \* startup probes issued after all StartupPolls sleeps
    handover,     \* the readiness state at lifespan's yield, "none" before
    rpc,          \* where each restart request stands, "idle" before and after it
    j,            \* the loop variable of each restart request's wait
    restarts,     \* restart requests accepted so far
    processing,   \* header and references requests awaiting Grobid
    extracting,   \* fulltext requests in progress
    reading,      \* those of them still awaiting input.read()
    jobs,         \* processing requests accepted so far
    lastReq,      \* the health, status or restart response the latest step sent
    rlog,         \* what each restart request in progress has done (observer)
    startProc,    \* what docker compose up did in the latest step, else "none"
    lastProbe,    \* the check_grobid_ready call that returned in the latest step
    lastStop,     \* the stop_containers call that returned in the latest step
    lock,         \* EventManager._lock: the task holding it, 0 when free
    cur,          \* the task the event loop is running inside a call, else 0
    tpc,          \* where each task stands inside emit/subscribe/unsubscribe
    targ,         \* each task's local `event` or `queue`
    tdead         \* each task's local dead_queues

bvars == <<history, subscribers, queue, nextChan, sess, ack, delivered, held,
           published, subAt, evictedAt, unsubCalls, last>>

\* the processing requests
pvars == <<processing, extracting, reading, jobs>>

lvars == <<lpc, i, ctl, onyxStatus, pre, broke, fin, starts, stops, sleeps,
           lateProbes, handover, rpc, j, restarts, pvars, lastReq, rlog,
           startProc, lastProbe, lastStop>>

cvars == <<lock, cur, tpc, targ, tdead>>

vars == <<bvars, lvars, cvars>>

(* ------------------------- Python containers --------------------------- *)
Min(a, b) == IF a < b THEN a ELSE b
Max(a, b) == IF a > b THEN a ELSE b

InList(x, l) == \E k \in 1..Len(l) : l[k] = x

\* mutant of deque_append: a plain list that is never trimmed
deque_append_unbounded(d, x, maxlen) == Append(d, x)

\* collections.deque(maxlen=n).append(x): drops from the left when full
deque_append(d, x, maxlen) ==
    IF maxlen = 0 THEN <<>>
    ELSE IF Len(d) >= maxlen THEN Append(Tail(d), x)
    ELSE Append(d, x)

\* list.remove(x): removes the first occurrence; ValueError when absent
RECURSIVE list_remove(_, _)
list_remove(l, x) ==
    IF l = <<>> THEN [raised |-> TRUE, list |-> <<>>]
    ELSE IF Head(l) = x THEN [raised |-> FALSE, list |-> Tail(l)]
    ELSE LET r == list_remove(Tail(l), x)
         IN  [raised |-> r.raised, list |-> <<Head(l)>> \o r.list]

\* mutant of queue_full: full one element too early
queue_full_early(q) == QueueMaxSize > 0 /\ Len(q) >= QueueMaxSize - 1

\* asyncio.Queue.full(): a maxsize <= 0 means unbounded
queue_full(q) == QueueMaxSize > 0 /\ Len(q) >= QueueMaxSize

\* list(seq)[-limit:] with Python's slice clamping
slice_last(l, limit) ==
    LET n     == Len(l)
        raw   == 0 - limit
        start == IF raw < 0 THEN Max(raw + n, 0) ELSE Min(raw, n)
    IN  SubSeq(l, start + 1, n)

(* ---------------------------- EventManager ----------------------------- *)
\* get_history(limit)
get_history(limit) == slice_last(history, limit)

\* subscriber_count
subscriber_count == Len(subscribers)

\* mutant of put_nowait: the newest event goes to the front of the mailbox
put_nowait_front(q, event) == <<event>> \o q

\* asyncio.Queue.put_nowait(item) on a queue that is not full: the item goes
\* to the back, get() takes from the front
put_nowait(q, event) == Append(q, event)

\* emit, the loop over self.subscribers: put_nowait on every queue in list
\* order, collecting the queues that raise QueueFull
RECURSIVE emit_notify(_, _, _)
emit_notify(subs, q, event) ==
    IF subs = <<>> THEN [queue |-> q, dead |-> <<>>]
    ELSE LET c == Head(subs)
             full == queue_full(q[c])
             q1 == IF full THEN q ELSE [q EXCEPT ![c] = put_nowait(@, event)]
             r  == emit_notify(Tail(subs), q1, event)
         IN  [queue |-> r.queue,
              dead  |-> IF full THEN <<c>> \o r.dead ELSE r.dead]

\* mutant of emit_cleanup: only the first full queue is removed
emit_cleanup_first_only(subs, dead) ==
    IF dead = <<>> THEN [raised |-> FALSE, list |-> subs]
    ELSE list_remove(subs, Head(dead))

\* mutant of emit_cleanup: the dead queues are collected but never removed
emit_cleanup_keep(subs, dead) == [raised |-> FALSE, list |-> subs]

\* emit, the clean-up loop: self.subscribers.remove(q) for q in dead_queues
RECURSIVE emit_cleanup(_, _)
emit_cleanup(subs, dead) ==
    IF dead = <<>> THEN [raised |-> FALSE, list |-> subs]
    ELSE LET r == list_remove(subs, Head(dead))
         IN  IF r.raised THEN [raised |-> TRUE, list |-> subs]
             ELSE emit_cleanup(r.list, Tail(dead))

\* emit(event_type, data): the new values of history, queue and subscribers
emit(event) ==
    LET n == emit_notify(subscribers, queue, event)
        c == emit_cleanup(subscribers, n.dead)
    IN  [history     |-> deque_append(history, event, MaxHistory),
         queue       |-> n.queue,
         dead        |-> n.dead,
         subscribers |-> c.list,
         raised      |-> c.raised]

\* mutant of unsubscribe: remove without the membership test
unsubscribe_unguarded(c) == list_remove(subscribers, c)

\* unsubscribe(queue): the new subscribers list
unsubscribe(c) ==
    IF InList(c, subscribers) THEN list_remove(subscribers, c)
    ELSE [raised |-> FALSE, list |-> subscribers]

\* the record kept of the operation that ran last: its name, its argument (a
\* channel, or the limit of a history query), whether it raised, what it returned
Op(name, a, raised, ret) ==
    [op |-> name, arg |-> a, raised |-> raised, ret |-> ret, total |-> 0]

\* no call: a turn of a session's loop calls nothing of the event manager
NoCall == Op("none", ForeignChan, FALSE, <<>>)

(* ------------------------------ actions -------------------------------- *)
\* await event_manager.emit(type, data), from a request handler
EmitCall(t) ==
    /\ LET event == [type |-> t, id |-> Len(published) + 1]
           r == emit(event)
       IN  /\ history' = r.history
           /\ queue' = r.queue
           /\ subscribers' = r.subscribers
           /\ published' = Append(published, event)
           /\ evictedAt' = [c \in Channels |->
                              IF InList(c, r.dead) THEN Len(published) + 1
                              ELSE evictedAt[c]]
           /\ last' = Op("emit", ForeignChan, r.raised, <<event>>)
    /\ UNCHANGED <<nextChan, sess, ack, delivered, held, subAt, unsubCalls>>

\* in a run that publishes n events at most
EmitWithin(t, n) == Len(published) < n /\ EmitCall(t)

Emit(t) == EmitWithin(t, MaxEvents)

\* mutant of new_queue: the mailbox is created holding the retained history
new_queue_replay == SubSeq(history, 1, Min(Len(history), QueueMaxSize))

\* subscribe: asyncio.Queue(maxsize=100), a new empty mailbox
new_queue == <<>>

\* GET /events: event_generator runs to its first yield: subscribe(), then the
\* "connected" record with the subscriber count
ConnectWithin(n) ==
    /\ nextChan <= n
    /\ LET c == nextChan
       IN  /\ queue' = [queue EXCEPT ![c] = new_queue]
           /\ subscribers' = Append(subscribers, c)
           /\ nextChan' = c + 1
           /\ sess' = [sess EXCEPT ![c] = "streaming"]
           /\ ack' = [ack EXCEPT ![c] = Len(subscribers) + 1]
           /\ subAt' = [subAt EXCEPT ![c] = Len(published)]
           /\ last' = Op("subscribe", c, FALSE, <<>>)
    /\ UNCHANGED <<history, delivered, held, published, evictedAt, unsubCalls>>

Connect == ConnectWithin(MaxChannels)

\* the loop of event_generator: queue.get() returns an event, which is yielded
\* without the event loop running in between (wait_for awaits the get inline)
Deliver(c) ==
    /\ sess[c] = "streaming"
    /\ held[c] = <<>>
    /\ queue[c] # <<>>
    /\ queue' = [queue EXCEPT ![c] = Tail(@)]
    /\ delivered' = [delivered EXCEPT ![c] = Append(@, Head(queue[c]))]
    /\ last' = NoCall
    /\ UNCHANGED <<history, subscribers, nextChan, sess, ack, held, published,
                   subAt, evictedAt, unsubCalls>>

\* the loop of event_generator where wait_for runs the get in a task of its
\* own: the event leaves the mailbox, other tasks run before the generator
\* is resumed with it
Dequeue(c) ==
    /\ sess[c] = "streaming"
    /\ held[c] = <<>>
    /\ queue[c] # <<>>
    /\ queue' = [queue EXCEPT ![c] = Tail(@)]
    /\ held' = [held EXCEPT ![c] = <<Head(queue[c])>>]
    /\ last' = NoCall
    /\ UNCHANGED <<history, subscribers, nextChan, sess, ack, delivered,
                   published, subAt, evictedAt, unsubCalls>>

\* the generator is resumed with the event wait_for returned and yields it
Yield(c) ==
    /\ sess[c] = "streaming"
    /\ held[c] # <<>>
    /\ delivered' = [delivered EXCEPT ![c] = Append(@, Head(held[c]))]
    /\ held' = [held EXCEPT ![c] = <<>>]
    /\ last' = NoCall
    /\ UNCHANGED <<history, subscribers, queue, nextChan, sess, ack, published,
                   subAt, evictedAt, unsubCalls>>

\* the loop of event_generator: wait_for timed out on the empty queue, a ping
\* record is yielded; an emit may have filled the queue since the timeout
Ping(c) ==
    /\ sess[c] = "streaming"
    /\ held[c] = <<>>
    /\ last' = NoCall
    /\ UNCHANGED <<history, subscribers, queue, nextChan, sess, ack, delivered,
                   held, published, subAt, evictedAt, unsubCalls>>

\* mutant of session_finally: no finally block, the session just ends
session_finally_skip(c) == [raised |-> FALSE, list |-> subscribers, calls |-> 0]

\* the finally block of event_generator: await event_manager.unsubscribe(queue)
session_finally(c) ==
    LET r == unsubscribe(c)
    IN  [raised |-> r.raised, list |-> r.list, calls |-> 1]

\* the session ends: the exception thrown into or raised by the generator
\* (how) leaves the try block and the finally block runs. With `take` the loop
\* body took an event from the mailbox in the same turn; an event taken and
\* not yielded is never yielded
SessionExit(c, how, take) ==
    /\ sess[c] = "streaming"
    /\ LET r == session_finally(c)
       IN  /\ subscribers' = r.list
           /\ unsubCalls' = [unsubCalls EXCEPT ![c] = @ + r.calls]
           /\ last' = Op(how, c, r.raised, <<>>)
    /\ sess' = [sess EXCEPT ![c] = "closed"]
    /\ queue' = IF take THEN [queue EXCEPT ![c] = Tail(@)] ELSE queue
    /\ held' = IF take THEN [held EXCEPT ![c] = <<Head(queue[c])>>] ELSE held
    /\ UNCHANGED <<history, nextChan, ack, delivered, published, subAt,
                   evictedAt>>

\* client disconnect or task cancellation: CancelledError, swallowed by the
\* except clause (GeneratorExit at a yield takes the same path to finally)
Cancel(c) == SessionExit(c, "session_cancelled", FALSE)

\* an exception raised by the loop body itself: json.dumps(event) on the event
\* queue.get() returned; it propagates after finally
Fail(c) ==
    \/ held[c] # <<>> /\ SessionExit(c, "session_error", FALSE)
    \/ held[c] = <<>> /\ queue[c] # <<>> /\ SessionExit(c, "session_error", TRUE)

\* unsubscribe called again with the handle of a finished session (one that
\* unsubscribed when it ended, registered or already evicted by then), or
\* with a Queue that was never registered
UnsubscribeCall(c) ==
    /\ \/ c = ForeignChan
       \/ c \in Channels /\ sess[c] = "closed"
    /\ LET r == unsubscribe(c)
       IN  /\ subscribers' = r.list
           /\ last' = Op("unsubscribe", c, r.raised, <<>>)
    /\ UNCHANGED <<history, queue, nextChan, sess, ack, delivered, held, published,
                   subAt, evictedAt, unsubCalls>>

\* mutant of events_history: total counts the events returned
events_history_counts_returned(limit) ==
    [Op("get_history", limit, FALSE, get_history(limit))
        EXCEPT !.total = Len(get_history(limit))]

\* events_history(limit): the events, and total = len(event_manager.history)
events_history(limit) ==
    [Op("get_history", limit, FALSE, get_history(limit))
        EXCEPT !.total = Len(history)]

\* GET /events/history?limit=..., and the bare get_history() with its default
HistoryQuery(limit) ==
    /\ last' = events_history(limit)
    /\ UNCHANGED <<history, subscribers, queue, nextChan, sess, ack, delivered, held,
                   published, subAt, evictedAt, unsubCalls>>

(* ------------- emit, subscribe, unsubscribe statement by statement ------ *)
\* the locals of a call: the Queue it works on, the event it has built
NoEvent == [type |-> "none", id |-> 0]
NoArg == [c |-> ForeignChan, e |-> NoEvent]

LockStates == {"emit_lock", "sub_lock", "unsub_lock"}
UnlockStates == {"emit_unlock", "sub_unlock", "unsub_unlock"}

\* the statement inside `async with self._lock:` that follows the acquire
AfterLock(pc) ==
    IF pc = "emit_lock" THEN "emit_loop"
    ELSE IF pc = "sub_lock" THEN "sub_append"
    ELSE "unsub_remove"

\* mutant of lock_acquire: the task always yields to the event loop first
lock_acquire_yields(t) == [lock |-> lock, suspended |-> TRUE]

\* asyncio.Lock.acquire(): a free lock is taken without suspending; a held
\* lock suspends the task until it is released
lock_acquire(t) ==
    IF lock = 0 THEN [lock |-> t, suspended |-> FALSE]
    ELSE [lock |-> lock, suspended |-> TRUE]

\* the event loop runs one task at a time: a call begins when no task is in
\* the middle of one
CallBegins(t) == cur = 0 /\ tpc[t] = "idle"

\* emit, up to the lock: the event is built and appended to history
EmitAppend(t, ty) ==
    /\ CallBegins(t)
    /\ Len(published) < MaxEvents
    /\ LET event == [type |-> ty, id |-> Len(published) + 1]
       IN  /\ history' = deque_append(history, event, MaxHistory)
           /\ published' = Append(published, event)
           /\ targ' = [targ EXCEPT ![t] = [c |-> ForeignChan, e |-> event]]
    /\ tpc' = [tpc EXCEPT ![t] = "emit_lock"]
    /\ cur' = t
    /\ UNCHANGED <<subscribers, queue, nextChan, sess, ack, delivered, held, subAt,
                   evictedAt, unsubCalls, last, lock, tdead>>

\* async with self._lock, entry
LockAcquire(t) ==
    /\ tpc[t] \in LockStates
    /\ cur \in {t, 0}
    /\ LET r == lock_acquire(t)
       IN  /\ lock' = r.lock
           /\ cur' = IF r.suspended THEN 0 ELSE t
           /\ tpc' = IF r.suspended THEN tpc
                     ELSE [tpc EXCEPT ![t] = AfterLock(tpc[t])]
    /\ UNCHANGED <<bvars, targ, tdead>>

\* emit, inside the lock: the loop over self.subscribers
EmitLoop(t) ==
    /\ cur = t
    /\ tpc[t] = "emit_loop"
    /\ LET n == emit_notify(subscribers, queue, targ[t].e)
       IN  /\ queue' = n.queue
           /\ tdead' = [tdead EXCEPT ![t] = n.dead]
    /\ tpc' = [tpc EXCEPT ![t] = "emit_cleanup"]
    /\ UNCHANGED <<history, subscribers, nextChan, sess, ack, delivered, held,
                   published, subAt, evictedAt, unsubCalls, last, lock, cur,
                   targ>>

\* emit, inside the lock: the loop over dead_queues
EmitCleanup(t) ==
    /\ cur = t
    /\ tpc[t] = "emit_cleanup"
    /\ subscribers' = emit_cleanup(subscribers, tdead[t]).list
    /\ evictedAt' = [c \in Channels |->
                       IF InList(c, tdead[t]) THEN targ[t].e.id
                       ELSE evictedAt[c]]
    /\ tpc' = [tpc EXCEPT ![t] = "emit_unlock"]
    /\ UNCHANGED <<history, queue, nextChan, sess, ack, delivered, held, published,
                   subAt, unsubCalls, last, lock, cur, targ, tdead>>

\* event_generator is started and calls subscribe; subscribe, up to the lock:
\* the Queue is created
SubscribeCreate(t) ==
    /\ CallBegins(t)
    /\ nextChan <= MaxChannels
    /\ queue' = [queue EXCEPT ![nextChan] = new_queue]
    /\ nextChan' = nextChan + 1
    /\ targ' = [targ EXCEPT ![t] = [c |-> nextChan, e |-> NoEvent]]
    /\ tpc' = [tpc EXCEPT ![t] = "sub_lock"]
    /\ cur' = t
    /\ UNCHANGED <<history, subscribers, sess, ack, delivered, held, published,
                   subAt, evictedAt, unsubCalls, last, lock, tdead>>

\* subscribe, inside the lock: self.subscribers.append(queue)
SubscribeAppend(t) ==
    /\ cur = t
    /\ tpc[t] = "sub_append"
    /\ subscribers' = Append(subscribers, targ[t].c)
    /\ subAt' = [subAt EXCEPT ![targ[t].c] = Len(published)]
    /\ tpc' = [tpc EXCEPT ![t] = "sub_unlock"]
    /\ UNCHANGED <<history, queue, nextChan, sess, ack, delivered, held, published,
                   evictedAt, unsubCalls, last, lock, cur, targ, tdead>>

\* unsubscribe is called, by the finally block of the session of channel c
\* (the only call of unsubscribe in main.py), reached by a cancellation or by
\* an error of the loop body; with `take` the loop body took an event from the
\* mailbox in the same turn
UnsubscribeBegin(t, c, take) ==
    /\ CallBegins(t)
    /\ sess[c] = "streaming"
    /\ take => (held[c] = <<>> /\ queue[c] # <<>>)
    /\ sess' = [sess EXCEPT ![c] = "closed"]
    /\ unsubCalls' = [unsubCalls EXCEPT ![c] = @ + 1]
    /\ queue' = IF take THEN [queue EXCEPT ![c] = Tail(@)] ELSE queue
    /\ held' = IF take THEN [held EXCEPT ![c] = <<Head(queue[c])>>] ELSE held
    /\ targ' = [targ EXCEPT ![t] = [c |-> c, e |-> NoEvent]]
    /\ tpc' = [tpc EXCEPT ![t] = "unsub_lock"]
    /\ cur' = t
    /\ UNCHANGED <<history, subscribers, nextChan, ack, delivered, published,
                   subAt, evictedAt, last, lock, tdead>>

\* unsubscribe, inside the lock: the membership test and the remove
UnsubscribeRemove(t) ==
    /\ cur = t
    /\ tpc[t] = "unsub_remove"
    /\ subscribers' = unsubscribe(targ[t].c).list
    /\ tpc' = [tpc EXCEPT ![t] = "unsub_unlock"]
    /\ UNCHANGED <<history, queue, nextChan, sess, ack, delivered, held, published,
                   subAt, evictedAt, unsubCalls, last, lock, cur, targ, tdead>>

\* async with self._lock, exit; the call returns. subscribe returns into
\* event_generator, which yields the "connected" record with the subscriber
\* count and is suspended at that yield: the session streams
LockRelease(t) ==
    /\ cur = t
    /\ tpc[t] \in UnlockStates
    /\ lock' = IF lock = t THEN 0 ELSE lock
    /\ cur' = 0
    /\ tpc' = [tpc EXCEPT ![t] = "idle"]
    /\ targ' = [targ EXCEPT ![t] = NoArg]
    /\ tdead' = [tdead EXCEPT ![t] = <<>>]
    /\ IF tpc[t] = "sub_unlock"
       THEN /\ sess' = [sess EXCEPT ![targ[t].c] = "streaming"]
            /\ ack' = [ack EXCEPT ![targ[t].c] = subscriber_count]
       ELSE UNCHANGED <<sess, ack>>
    /\ UNCHANGED <<history, subscribers, queue, nextChan, delivered, held,
                   published, subAt, evictedAt, unsubCalls, last>>

\* a suspended session is resumed by the event loop only when no task is in
\* the middle of a call
SessionRuns(c) == cur = 0 /\ sess[c] = "streaming"

(* --------------------------- container lifecycle ----------------------- *)
\* the characters str.strip() removes: every character str.isspace() is true
\* for. A character without a TLA+ escape is written as its code point
Whitespace ==
    {"\t", "\n", "U+000B", "\f", "\r", "U+001C", "U+001D", "U+001E", "U+001F",
     " ", "U+0085", "U+00A0", "U+1680", "U+2000", "U+2001", "U+2002", "U+2003",
     "U+2004", "U+2005", "U+2006", "U+2007", "U+2008", "U+2009", "U+200A",
     "U+2028", "U+2029", "U+202F", "U+205F", "U+3000"}

\* a response body is the sequence of its characters
TrueText == <<"t", "r", "u", "e">>
FalseText == <<"f", "a", "l", "s", "e">>

RECURSIVE lstrip(_)
lstrip(text) ==
    IF text # <<>> /\ Head(text) \in Whitespace THEN lstrip(Tail(text)) ELSE text

RECURSIVE rstrip(_)
rstrip(text) ==
    IF text # <<>> /\ text[Len(text)] \in Whitespace
    THEN rstrip(SubSeq(text, 1, Len(text) - 1))
    ELSE text

\* str.strip()
strip(text) == rstrip(lstrip(text))

\* what GET {GROBID_URL}/api/isalive can come back with: a response with a
\* status code and a body, or an exception raised by httpx
Bodies == {TrueText, <<"U+00A0">> \o TrueText \o <<"\r", "\n">>, FalseText}
ProbeOutcomes ==
    [kind : {"response"}, status : {200}, text : Bodies]
        \cup [kind : {"response"}, status : {503}, text : {TrueText}]
        \cup [kind : {"ConnectError"}, status : {0}, text : {<<>>}]

\* mutant of check_grobid_ready: the body is compared as it came
check_grobid_ready_no_strip(o) ==
    IF o.kind # "response" THEN [ret |-> FALSE, raised |-> FALSE]
    ELSE [ret |-> o.status = 200 /\ o.text = TrueText, raised |-> FALSE]

\* check_grobid_ready: status_code == 200 and text.strip() == "true";
\* except Exception: return False
check_grobid_ready(o) ==
    IF o.kind # "response" THEN [ret |-> FALSE, raised |-> FALSE]
    ELSE [ret |-> o.status = 200 /\ strip(o.text) = TrueText, raised |-> FALSE]

\* the caller's view of one probe: the boolean it is given
probe(o) == check_grobid_ready(o).ret

\* what the probes made while requests are served come back with: the
\* backend is up, or it cannot be reached
ServingProbes ==
    {o \in ProbeOutcomes :
        o.kind = "ConnectError" \/ (o.status = 200 /\ o.text = TrueText)}

\* a call of check_grobid_ready: what came back, what it returned
ProbeRecord(o) ==
    [outcome |-> o, ret |-> check_grobid_ready(o).ret,
     raised |-> check_grobid_ready(o).raised]

NoProbe == [outcome |-> [kind |-> "none", status |-> 0, text |-> <<>>],
            ret |-> FALSE, raised |-> FALSE]

\* the step got the result of a check_grobid_ready call, or made none
Probed(o) == lastProbe' = ProbeRecord(o)
NotProbed == lastProbe' = NoProbe

\* what `docker compose up -d` can do: exit 0; exit non-zero with a stderr that
\* contains "already in use" or "Conflict", another text, nothing, or bytes
\* that are not UTF-8; or create_subprocess_exec raises because the docker
\* executable is missing or may not be executed
ProcResults == {"exit0", "already in use", "Conflict", "no such image",
                "empty stderr", "undecodable stderr", "FileNotFoundError",
                "PermissionError"}

\* what awaiting create_subprocess_exec ends with, and what communicate()
\* ends with once the process exists
SpawnResults == {"spawned", "FileNotFoundError", "PermissionError"}
ExitResults == ProcResults \ SpawnResults

\* what `docker compose down` can do
StopResults == {"exit0", "nonzero", "exception"}

\* start_containers after its probe said not ready: "started", "exists"
\* (the benign name conflict), "raise" (set_status error, then RuntimeError)
\* or "propagate": an exception the try block does not catch (stderr.decode()
\* raising UnicodeDecodeError, an OSError other than FileNotFoundError) leaves
\* the call as it is, with no set_status
compose_up(p) ==
    IF p = "FileNotFoundError" THEN "raise"
    ELSE IF p = "PermissionError" THEN "propagate"
    ELSE IF p = "exit0" THEN "started"
    ELSE IF p = "undecodable stderr" THEN "propagate"
    ELSE IF p \in {"already in use", "Conflict"} THEN "exists"
    ELSE "raise"

\* mutant of stop_containers: no except clause, the exception leaves the call
stop_containers_propagates(s) == [raised |-> s = "exception"]

\* stop_containers: a non-zero exit and any exception are logged, never raised
stop_containers(s) == [raised |-> FALSE]

\* the call is recorded with what docker compose down did and whether the
\* call raised
StopCalled(s) ==
    lastStop' = [outcome |-> s, raised |-> stop_containers(s).raised]

NoStop == [outcome |-> "none", raised |-> FALSE]

\* the step made no stop_containers call
NotStopped == lastStop' = NoStop

\* mutant of wait_step: the yield is reached straight from the exhausted loop
wait_step_yield(k, ready) ==
    IF ready THEN [lpc |-> "final", i |-> k, slept |-> 0, broke |-> TRUE]
    ELSE IF k + 1 < StartupPolls
         THEN [lpc |-> "polling", i |-> k + 1, slept |-> 1, broke |-> FALSE]
         ELSE [lpc |-> "serving", i |-> k, slept |-> 1, broke |-> FALSE]

\* mutant of wait_step: the loop variable never advances
wait_step_no_advance(k, ready) ==
    IF ready THEN [lpc |-> "final", i |-> k, slept |-> 0, broke |-> TRUE]
    ELSE [lpc |-> "polling", i |-> k, slept |-> 1, broke |-> FALSE]

\* mutant of wait_step: sleep first, test the probe's result afterwards
wait_step_sleep_first(k, ready) ==
    IF ready THEN [lpc |-> "final", i |-> k, slept |-> 1, broke |-> TRUE]
    ELSE IF k + 1 < StartupPolls
         THEN [lpc |-> "polling", i |-> k + 1, slept |-> 1, broke |-> FALSE]
         ELSE [lpc |-> "final", i |-> k, slept |-> 1, broke |-> FALSE]

\* lifespan, one pass of `for i in range(180)`: where the loop goes after a
\* probe that returned `ready` in iteration `k`
wait_step(k, ready) ==
    IF ready THEN [lpc |-> "final", i |-> k, slept |-> 0, broke |-> TRUE]
    ELSE IF k + 1 < StartupPolls
         THEN [lpc |-> "polling", i |-> k + 1, slept |-> 1, broke |-> FALSE]
         ELSE [lpc |-> "final", i |-> k, slept |-> 1, broke |-> FALSE]

\* mutant of after_wait: the result of the last probe is ignored
after_wait_always_idle(ready) ==
    [status |-> "idle", ctl |-> "Ready", lpc |-> "serving"]

\* lifespan after the loop: the second check_grobid_ready decides the status,
\* and the yield follows on both branches
after_wait(ready) ==
    IF ready THEN [status |-> "idle", ctl |-> "Ready", lpc |-> "serving"]
    ELSE [status |-> "error", ctl |-> "Failed", lpc |-> "serving"]

\* an HTTP response: endpoint, status code, the grobid_ready / grobid_api
\* field and the "healthy" field of check_containers_health
Response(name, code, ready, containers) ==
    [op |-> name, code |-> code, ready |-> ready, containers |-> containers]

NoReq == Response("none", 0, FALSE, FALSE)

\* lifespan -> start_containers: the probe that lets it skip docker compose
StartupPreCheck(ready) ==
    /\ lpc = "boot"
    /\ pre' = ready
    /\ IF ready
       THEN /\ lpc' = "polling"
            /\ ctl' = "WaitingForBackend"
       ELSE /\ lpc' = "starting"
            /\ ctl' = "Starting"
    /\ onyxStatus' = "working"
    /\ startProc' = "none"
    /\ lastReq' = NoReq
    /\ UNCHANGED <<bvars, cvars, pvars, rlog, i, broke, fin, starts, stops, sleeps,
                   lateProbes, handover, rpc, j, restarts>>

\* lifespan -> start_containers: docker compose up -d
StartupComposeUp(p) ==
    /\ lpc = "starting"
    /\ starts' = starts + 1
    /\ startProc' = p
    /\ IF compose_up(p) = "raise"
       THEN /\ lpc' = "aborting"
            /\ ctl' = "Failed"
            /\ onyxStatus' = "error"
       ELSE IF compose_up(p) = "propagate"
       THEN /\ lpc' = "aborting"
            /\ UNCHANGED <<ctl, onyxStatus>>
       ELSE /\ lpc' = "polling"
            /\ ctl' = "WaitingForBackend"
            /\ onyxStatus' = "working"
    /\ lastReq' = NoReq
    /\ UNCHANGED <<bvars, cvars, pvars, rlog, i, pre, broke, fin, stops, sleeps,
                   lateProbes, handover, rpc, j, restarts>>

\* lifespan, finally block reached by the exception start_containers raised:
\* stop_containers, then the error leaves lifespan and the application never
\* starts
StartupAbort(s) ==
    /\ lpc = "aborting"
    /\ stops' = stops + 1
    /\ lpc' = "aborted"
    /\ ctl' = "Stopped"
    /\ startProc' = "none"
    /\ lastReq' = NoReq
    /\ UNCHANGED <<bvars, cvars, pvars, rlog, i, onyxStatus, pre, broke, fin, starts,
                   sleeps, lateProbes, handover, rpc, j, restarts>>

\* lifespan, one iteration of the wait: probe, then break or sleep one second
StartupPoll(ready) ==
    /\ lpc = "polling"
    /\ LET w == wait_step(i, ready)
       IN  /\ lpc' = w.lpc
           /\ i' = w.i
           /\ sleeps' = sleeps + w.slept
           /\ broke' = w.broke
    /\ lateProbes' = IF sleeps >= StartupPolls THEN lateProbes + 1 ELSE lateProbes
    /\ startProc' = "none"
    /\ lastReq' = NoReq
    /\ UNCHANGED <<bvars, cvars, pvars, rlog, ctl, onyxStatus, pre, fin, starts, stops,
                   handover, rpc, j, restarts>>

\* lifespan after the wait: probe once more, set the status, yield
StartupFinalCheck(ready) ==
    /\ lpc = "final"
    /\ fin' = ready
    /\ LET a == after_wait(ready)
       IN  /\ onyxStatus' = a.status
           /\ ctl' = a.ctl
           /\ lpc' = a.lpc
           /\ handover' = IF a.lpc = "serving" THEN a.ctl ELSE handover
    /\ lateProbes' = IF sleeps >= StartupPolls THEN lateProbes + 1 ELSE lateProbes
    /\ startProc' = "none"
    /\ lastReq' = NoReq
    /\ UNCHANGED <<bvars, cvars, pvars, rlog, i, pre, broke, starts, stops, sleeps,
                   rpc, j, restarts>>

\* the server stops once no request is being served: lifespan resumes after
\* its yield, finally stop_containers
Shutdown(s) ==
    /\ lpc = "serving"
    /\ \A r \in Reqs : rpc[r] = "idle"
    /\ processing = 0
    /\ extracting = 0
    /\ stops' = stops + 1
    /\ lpc' = "stopped"
    /\ ctl' = "Stopped"
    /\ startProc' = "none"
    /\ lastReq' = NoReq
    /\ UNCHANGED <<bvars, cvars, pvars, rlog, i, onyxStatus, pre, broke, fin, starts,
                   sleeps, lateProbes, handover, rpc, j, restarts>>

\* requests are dispatched to handlers only between lifespan's yield and the
\* shutdown
accepting == lpc = "serving"

\* mutant of health_response: the containers' health is not looked at
health_response_probe_only(containersHealthy, ready) ==
    Response("health", IF ready THEN 200 ELSE 503, ready, containersHealthy)

\* GET /health: 200 when the containers are healthy and the probe succeeds,
\* else HTTPException 503
health_response(containersHealthy, ready) ==
    Response("health", IF containersHealthy /\ ready THEN 200 ELSE 503, ready,
             containersHealthy)

\* GET /health: check_containers_health, check_grobid_ready, the response
Health(containersHealthy, ready) ==
    /\ accepting
    /\ lastReq' = health_response(containersHealthy, ready)
    /\ startProc' = "none"
    /\ UNCHANGED <<bvars, cvars, pvars, rlog, lpc, i, ctl, onyxStatus, pre, broke, fin,
                   starts, stops, sleeps, lateProbes, handover, rpc, j,
                   restarts>>

\* GET /status: the same two checks, always answered with 200
Status(containersHealthy, ready) ==
    /\ accepting
    /\ lastReq' = Response("status", 200, ready, containersHealthy)
    /\ startProc' = "none"
    /\ UNCHANGED <<bvars, cvars, pvars, rlog, lpc, i, ctl, onyxStatus, pre, broke, fin,
                   starts, stops, sleeps, lateProbes, handover, rpc, j,
                   restarts>>

\* how `await input.read()` goes in the callback that calls it: an upload held
\* in memory is returned at once, one spooled to disk is read in a thread and
\* the handler is suspended, or the read raises at once
ReadResults == {"memory", "disk", "raises"}

\* how the post to Grobid of a processing request can end
ProcessResults == {"response", "TimeoutException", "Exception"}

\* the status a processing request sets when its post to Grobid has ended:
\* idle after any response, error after a timeout or another exception
process_end(x) == IF x = "response" THEN "idle" ELSE "error"

\* POST /api/processHeaderDocument and /api/processReferences: set_status
\* working, then, inside the try block, the handler awaits the upload and the
\* post to Grobid; a read that raises at once takes the except branch in the
\* same callback. These two handlers publish nothing. The run has n restart
\* and processing requests at most
ProcessBeginWithin(n, r) ==
    /\ accepting
    /\ restarts + jobs < n
    /\ jobs' = jobs + 1
    /\ processing' = IF r = "raises" THEN processing ELSE processing + 1
    /\ onyxStatus' = IF r = "raises" THEN process_end("Exception") ELSE "working"
    /\ startProc' = "none"
    /\ lastReq' = NoReq
    /\ UNCHANGED <<bvars, cvars, extracting, reading, rlog, lpc, i, ctl, pre,
                   broke, fin, starts, stops, sleeps, lateProbes, handover,
                   rpc, j, restarts>>

ProcessBegin(r) == ProcessBeginWithin(MaxRequests, r)

\* the upload read or the post of a processing request has ended: set_status,
\* then the response or the HTTPException
ProcessEnd(x) ==
    /\ processing > 0
    /\ processing' = processing - 1
    /\ onyxStatus' = process_end(x)
    /\ startProc' = "none"
    /\ lastReq' = NoReq
    /\ UNCHANGED <<bvars, cvars, extracting, reading, jobs, rlog, lpc, i, ctl,
                   pre, broke, fin, starts, stops, sleeps, lateProbes,
                   handover, rpc, j, restarts>>

\* the event a fulltext request publishes when its post to Grobid has ended
fulltext_end(x) ==
    IF x = "response" THEN "extraction_success" ELSE "extraction_failure"

\* POST /api/processFulltextDocument: set_status working, then the handler
\* awaits input.read(), outside any try block. An upload held in memory is
\* returned at once: extraction_start is published in the same callback and
\* the handler goes on to await the post to Grobid. An upload on disk suspends
\* the handler with nothing published. A read that raises ends the request
\* with the status left at working and nothing published.
FulltextBeginWithin(n, r) ==
    /\ accepting
    /\ restarts + jobs < n
    /\ jobs' = jobs + 1
    /\ IF r = "memory"
         THEN EmitCall("extraction_start")
         ELSE UNCHANGED bvars
    /\ extracting' = IF r = "raises" THEN extracting ELSE extracting + 1
    /\ reading' = IF r = "disk" THEN reading + 1 ELSE reading
    /\ onyxStatus' = "working"
    /\ startProc' = "none"
    /\ lastReq' = NoReq
    /\ UNCHANGED <<cvars, processing, rlog, lpc, i, ctl, pre, broke, fin,
                   starts, stops, sleeps, lateProbes, handover, rpc, j,
                   restarts>>

FulltextBegin(r) == FulltextBeginWithin(MaxRequests, r)

\* the read of an upload on disk has ended: when it returned, extraction_start
\* is published and the handler goes on to await the post to Grobid; when it
\* raised, the request ends with nothing published and no status call
FulltextRead(ok) ==
    /\ reading > 0
    /\ reading' = reading - 1
    /\ IF ok
         THEN EmitCall("extraction_start")
         ELSE UNCHANGED bvars
    /\ extracting' = IF ok THEN extracting ELSE extracting - 1
    /\ startProc' = "none"
    /\ lastReq' = NoReq
    /\ UNCHANGED <<cvars, processing, jobs, onyxStatus, rlog, lpc, i, ctl, pre,
                   broke, fin, starts, stops, sleeps, lateProbes, handover,
                   rpc, j, restarts>>

\* the post of a fulltext request has ended: extraction_success after any
\* response, extraction_failure after a timeout or another exception, is
\* published, then set_status and the response or the HTTPException
FulltextEnd(x) ==
    /\ extracting > reading
    /\ EmitCall(fulltext_end(x))
    /\ extracting' = extracting - 1
    /\ onyxStatus' = process_end(x)
    /\ startProc' = "none"
    /\ lastReq' = NoReq
    /\ UNCHANGED <<cvars, processing, reading, jobs, rlog, lpc, i, ctl, pre,
                   broke, fin, starts, stops, sleeps, lateProbes, handover,
                   rpc, j, restarts>>

\* POST /docker/restart: set_status working, then the handler awaits
\* stop_containers. The run has n restart and processing requests at most
RestartBeginWithin(n) ==
    /\ accepting
    /\ restarts + jobs < n
    /\ restarts' = restarts + 1
    /\ onyxStatus' = "working"
    /\ rpc' = [rpc EXCEPT ![restarts + 1] = "stopping"]
    /\ startProc' = "none"
    /\ lastReq' = NoReq
    /\ UNCHANGED <<bvars, cvars, pvars, rlog, lpc, i, ctl, pre, broke, fin, starts,
                   stops, sleeps, lateProbes, handover, j>>

RestartBegin == RestartBeginWithin(MaxRequests)

\* restart_containers: stop_containers has returned, sleep(2) is awaited
RestartStop(r, s) ==
    /\ rpc[r] = "stopping"
    /\ stops' = stops + 1
    /\ ctl' = "Stopped"
    /\ rpc' = [rpc EXCEPT ![r] = "pausing"]
    /\ rlog' = [rlog EXCEPT ![r] = Append(@, "stop")]
    /\ startProc' = "none"
    /\ lastReq' = NoReq
    /\ UNCHANGED <<bvars, cvars, pvars, lpc, i, onyxStatus, pre, broke, fin, starts,
                   sleeps, lateProbes, handover, j, restarts>>

\* restart_containers: sleep(2) has ended, start_containers sends its probe
RestartPause(r) ==
    /\ rpc[r] = "pausing"
    /\ rpc' = [rpc EXCEPT ![r] = "probing"]
    /\ rlog' = [rlog EXCEPT ![r] = Append(@, "sleep")]
    /\ startProc' = "none"
    /\ lastReq' = NoReq
    /\ UNCHANGED <<bvars, cvars, pvars, lpc, i, ctl, onyxStatus, pre, broke, fin,
                   starts, stops, sleeps, lateProbes, handover, j, restarts>>

\* restart_containers -> start_containers: its probe has come back. Ready:
\* it returns and the wait begins; else set_status working and
\* create_subprocess_exec is awaited
RestartProbe(r, ready) ==
    /\ rpc[r] = "probing"
    /\ rlog' = [rlog EXCEPT ![r] = Append(@, "start")]
    /\ IF ready
       THEN /\ rpc' = [rpc EXCEPT ![r] = "polling"]
            /\ ctl' = "WaitingForBackend"
            /\ UNCHANGED onyxStatus
       ELSE /\ rpc' = [rpc EXCEPT ![r] = "spawning"]
            /\ ctl' = "Starting"
            /\ onyxStatus' = "working"
    /\ startProc' = "none"
    /\ lastReq' = NoReq
    /\ UNCHANGED <<bvars, cvars, pvars, lpc, i, pre, broke, fin, starts, stops, sleeps,
                   lateProbes, handover, j, restarts>>

\* an exception that start_containers raised leaves restart_containers: the
\* request is answered 500 and is no longer in progress
restart_start_failed(r, how) ==
    [rpc |-> [rpc EXCEPT ![r] = "idle"],
     rlog |-> [rlog EXCEPT ![r] = <<>>],
     ctl |-> IF how = "raise" THEN "Failed" ELSE ctl,
     status |-> IF how = "raise" THEN "error" ELSE onyxStatus,
     resp |-> Response("restart", 500, FALSE, FALSE)]

\* restart_containers -> start_containers: create_subprocess_exec has returned
\* the process, and communicate() is awaited, or it has raised
RestartSpawn(r, x) ==
    /\ rpc[r] = "spawning"
    /\ starts' = starts + 1
    /\ startProc' = x
    /\ IF x = "spawned"
       THEN /\ rpc' = [rpc EXCEPT ![r] = "communicating"]
            /\ lastReq' = NoReq
            /\ UNCHANGED <<ctl, onyxStatus, rlog>>
       ELSE LET f == restart_start_failed(r, compose_up(x))
            IN  /\ rpc' = f.rpc
                /\ rlog' = f.rlog
                /\ ctl' = f.ctl
                /\ onyxStatus' = f.status
                /\ lastReq' = f.resp
    /\ UNCHANGED <<bvars, cvars, pvars, lpc, i, pre, broke, fin, stops, sleeps,
                   lateProbes, handover, j, restarts>>

\* restart_containers -> start_containers: communicate() has returned; the
\* exit code and stderr decide, and after a start that did not raise the wait
\* begins
RestartCommunicate(r, p) ==
    /\ rpc[r] = "communicating"
    /\ startProc' = p
    /\ IF compose_up(p) \in {"raise", "propagate"}
       THEN LET f == restart_start_failed(r, compose_up(p))
            IN  /\ rpc' = f.rpc
                /\ rlog' = f.rlog
                /\ ctl' = f.ctl
                /\ onyxStatus' = f.status
                /\ lastReq' = f.resp
       ELSE /\ rpc' = [rpc EXCEPT ![r] = "polling"]
            /\ ctl' = "WaitingForBackend"
            /\ lastReq' = NoReq
            /\ UNCHANGED <<onyxStatus, rlog>>
    /\ UNCHANGED <<bvars, cvars, pvars, lpc, i, pre, broke, fin, starts, stops,
                   sleeps, lateProbes, handover, j, restarts>>

\* restart_containers, `if await check_grobid_ready()` in the loop: set_status
\* idle and return grobid_ready True, or go on to sleep(1) with no set_status
\* call (status "unset")
restart_probe_step(ready) ==
    IF ready
    THEN [rpc |-> "idle", ctl |-> "Ready", status |-> "idle",
          resp |-> Response("restart", 200, TRUE, FALSE)]
    ELSE [rpc |-> "sleeping", ctl |-> "unset", status |-> "unset",
          resp |-> NoReq]

\* mutant of restart_sleep_step: the exhausted wait raises instead of returning
restart_sleep_step_raises(k) ==
    IF k + 1 < RestartPolls
    THEN [rpc |-> "polling", j |-> k + 1, ctl |-> "unset", status |-> "unset",
          resp |-> NoReq]
    ELSE [rpc |-> "idle", j |-> 0, ctl |-> "Failed", status |-> "error",
          resp |-> Response("restart", 500, FALSE, FALSE)]

\* restart_containers, after the sleep(1) of iteration k of `for _ in
\* range(120)`: the next iteration, or the loop is left: set_status error and
\* return grobid_ready False
restart_sleep_step(k) ==
    IF k + 1 < RestartPolls
    THEN [rpc |-> "polling", j |-> k + 1, ctl |-> "unset", status |-> "unset",
          resp |-> NoReq]
    ELSE [rpc |-> "idle", j |-> 0, ctl |-> "Failed", status |-> "error",
          resp |-> Response("restart", 200, FALSE, FALSE)]

\* restart_containers, the probe of one iteration of the wait has come back;
\* a request that has answered is no longer in progress
RestartPoll(r, ready) ==
    /\ rpc[r] = "polling"
    /\ LET w == restart_probe_step(ready)
       IN  /\ rpc' = [rpc EXCEPT ![r] = w.rpc]
           /\ ctl' = IF w.status = "unset" THEN ctl ELSE w.ctl
           /\ onyxStatus' = IF w.status = "unset" THEN onyxStatus ELSE w.status
           /\ lastReq' = w.resp
           /\ rlog' = [rlog EXCEPT ![r] = IF w.rpc = "idle" THEN <<>>
                                          ELSE Append(@, "probe_fail")]
           /\ j' = [j EXCEPT ![r] = IF w.rpc = "idle" THEN 0 ELSE @]
    /\ startProc' = "none"
    /\ UNCHANGED <<bvars, cvars, pvars, lpc, i, pre, broke, fin, starts,
                   stops, sleeps, lateProbes, handover, restarts>>

\* restart_containers, the sleep(1) of one iteration has ended
RestartSleep(r) ==
    /\ rpc[r] = "sleeping"
    /\ LET w == restart_sleep_step(j[r])
       IN  /\ rpc' = [rpc EXCEPT ![r] = w.rpc]
           /\ j' = [j EXCEPT ![r] = w.j]
           /\ ctl' = IF w.status = "unset" THEN ctl ELSE w.ctl
           /\ onyxStatus' = IF w.status = "unset" THEN onyxStatus ELSE w.status
           /\ lastReq' = w.resp
           /\ rlog' = [rlog EXCEPT ![r] = IF w.rpc = "idle" THEN <<>> ELSE @]
    /\ startProc' = "none"
    /\ UNCHANGED <<bvars, cvars, pvars, lpc, i, pre, broke, fin, starts,
                   stops, sleeps, lateProbes, handover, restarts>>

(* --------------------------- specifications ---------------------------- *)
InitBroadcaster ==
    /\ history = <<>>
    /\ subscribers = <<>>
    /\ queue = [c \in Channels |-> <<>>]
    /\ nextChan = 1
    /\ sess = [c \in Channels |-> "new"]
    /\ ack = [c \in Channels |-> 0]
    /\ delivered = [c \in Channels |-> <<>>]
    /\ held = [c \in Channels |-> <<>>]
    /\ published = <<>>
    /\ subAt = [c \in Channels |-> 0]
    /\ evictedAt = [c \in Channels |-> 0]
    /\ unsubCalls = [c \in Channels |-> 0]
    /\ last = NoCall

\* no task is inside a call of the event manager
InitCalls ==
    /\ lock = 0
    /\ cur = 0
    /\ tpc = [t \in Tasks |-> "idle"]
    /\ targ = [t \in Tasks |-> NoArg]
    /\ tdead = [t \in Tasks |-> <<>>]

\* the process right after import: nothing started yet
InitLifecycle ==
    /\ lpc = "boot"
    /\ i = 0
    /\ ctl = "Stopped"
    /\ onyxStatus = "none"
    /\ pre = FALSE
    /\ broke = FALSE
    /\ fin = FALSE
    /\ starts = 0
    /\ stops = 0
    /\ sleeps = 0
    /\ lateProbes = 0
    /\ handover = "none"
    /\ rpc = [r \in Reqs |-> "idle"]
    /\ j = [r \in Reqs |-> 0]
    /\ restarts = 0
    /\ processing = 0
    /\ extracting = 0
    /\ reading = 0
    /\ jobs = 0
    /\ lastReq = NoReq
    /\ rlog = [r \in Reqs |-> <<>>]
    /\ startProc = "none"
    /\ lastProbe = NoProbe
    /\ lastStop = NoStop

\* the process once lifespan has yielded, after a startup that found the
\* backend ready at every probe: the last step was the check after the wait,
\* answered 200 "true"
InitServing ==
    /\ lpc = "serving"
    /\ i = 0
    /\ ctl = "Ready"
    /\ onyxStatus = "idle"
    /\ pre = TRUE
    /\ broke = TRUE
    /\ fin = TRUE
    /\ starts = 0
    /\ stops = 0
    /\ sleeps = 0
    /\ lateProbes = 0
    /\ handover = "Ready"
    /\ rpc = [r \in Reqs |-> "idle"]
    /\ j = [r \in Reqs |-> 0]
    /\ restarts = 0
    /\ processing = 0
    /\ extracting = 0
    /\ reading = 0
    /\ jobs = 0
    /\ lastReq = NoReq
    /\ rlog = [r \in Reqs |-> <<>>]
    /\ startProc = "none"
    /\ lastProbe = ProbeRecord([kind |-> "response", status |-> 200, text |-> TrueText])
    /\ lastStop = NoStop

\* the event manager and its SSE sessions, while the application serves
Init == InitBroadcaster /\ InitServing /\ InitCalls

Next ==
    \/ \E t \in EventTypes : Emit(t) /\ UNCHANGED <<lvars, cvars>>
    \/ Connect /\ UNCHANGED <<lvars, cvars>>
    \/ \E c \in Channels : Deliver(c) /\ UNCHANGED <<lvars, cvars>>
    \/ \E c \in Channels : Dequeue(c) /\ UNCHANGED <<lvars, cvars>>
    \/ \E c \in Channels : Yield(c) /\ UNCHANGED <<lvars, cvars>>
    \/ \E c \in Channels : Ping(c) /\ UNCHANGED <<lvars, cvars>>
    \/ \E c \in Channels : Cancel(c) /\ UNCHANGED <<lvars, cvars>>
    \/ \E c \in Channels : Fail(c) /\ UNCHANGED <<lvars, cvars>>

\* the event stream: publishers and SSE sessions
Spec == Init /\ [][Next]_vars

\* the event stream in runs of MaxEvictionEvents events
EvictionNext ==
    \/ \E t \in EventTypes :
          EmitWithin(t, MaxEvictionEvents) /\ UNCHANGED <<lvars, cvars>>
    \/ Connect /\ UNCHANGED <<lvars, cvars>>
    \/ \E c \in Channels : Deliver(c) /\ UNCHANGED <<lvars, cvars>>
    \/ \E c \in Channels : Dequeue(c) /\ UNCHANGED <<lvars, cvars>>
    \/ \E c \in Channels : Yield(c) /\ UNCHANGED <<lvars, cvars>>
    \/ \E c \in Channels : Ping(c) /\ UNCHANGED <<lvars, cvars>>
    \/ \E c \in Channels : Cancel(c) /\ UNCHANGED <<lvars, cvars>>
    \/ \E c \in Channels : Fail(c) /\ UNCHANGED <<lvars, cvars>>

EvictionSpec == Init /\ [][EvictionNext]_vars

\* the history queries served beside the stream, while publishers publish
\* and up to MaxHistorySessions sessions run
ApiNext ==
    \/ \E t \in EventTypes : Emit(t) /\ UNCHANGED <<lvars, cvars>>
    \/ ConnectWithin(MaxHistorySessions) /\ UNCHANGED <<lvars, cvars>>
    \/ \E c \in Channels : Deliver(c) /\ UNCHANGED <<lvars, cvars>>
    \/ \E c \in Channels : Dequeue(c) /\ UNCHANGED <<lvars, cvars>>
    \/ \E c \in Channels : Yield(c) /\ UNCHANGED <<lvars, cvars>>
    \/ \E c \in Channels : Ping(c) /\ UNCHANGED <<lvars, cvars>>
    \/ \E c \in Channels : Cancel(c) /\ UNCHANGED <<lvars, cvars>>
    \/ \E c \in Channels : Fail(c) /\ UNCHANGED <<lvars, cvars>>
    \/ \E limit \in Limits \cup {DefaultLimit} :
          HistoryQuery(limit) /\ UNCHANGED <<lvars, cvars>>

ApiSpec == Init /\ [][ApiNext]_vars

\* unsubscribe called beside the stream, with the handle of a finished
\* session or a foreign Queue, while publishers publish and sessions run
UnsubscribeNext ==
    \/ \E t \in EventTypes : Emit(t) /\ UNCHANGED <<lvars, cvars>>
    \/ Connect /\ UNCHANGED <<lvars, cvars>>
    \/ \E c \in Channels : Deliver(c) /\ UNCHANGED <<lvars, cvars>>
    \/ \E c \in Channels : Dequeue(c) /\ UNCHANGED <<lvars, cvars>>
    \/ \E c \in Channels : Yield(c) /\ UNCHANGED <<lvars, cvars>>
    \/ \E c \in Channels : Ping(c) /\ UNCHANGED <<lvars, cvars>>
    \/ \E c \in Channels : Cancel(c) /\ UNCHANGED <<lvars, cvars>>
    \/ \E c \in Channels : Fail(c) /\ UNCHANGED <<lvars, cvars>>
    \/ \E c \in {ForeignChan} \cup Channels :
          UnsubscribeCall(c) /\ UNCHANGED <<lvars, cvars>>

UnsubscribeSpec == Init /\ [][UnsubscribeNext]_vars

\* the calls of the event manager, statement by statement, made by Tasks, and
\* the turns of the sessions' loops between them
CallsNext ==
    \/ \E t \in Tasks, ty \in EventTypes : EmitAppend(t, ty) /\ UNCHANGED lvars
    \/ \E t \in Tasks : LockAcquire(t) /\ UNCHANGED lvars
    \/ \E t \in Tasks : EmitLoop(t) /\ UNCHANGED lvars
    \/ \E t \in Tasks : EmitCleanup(t) /\ UNCHANGED lvars
    \/ \E t \in Tasks : SubscribeCreate(t) /\ UNCHANGED lvars
    \/ \E t \in Tasks : SubscribeAppend(t) /\ UNCHANGED lvars
    \/ \E t \in Tasks, c \in Channels, take \in BOOLEAN :
          UnsubscribeBegin(t, c, take) /\ UNCHANGED lvars
    \/ \E t \in Tasks : UnsubscribeRemove(t) /\ UNCHANGED lvars
    \/ \E t \in Tasks : LockRelease(t) /\ UNCHANGED lvars
    \/ \E c \in Channels :
          SessionRuns(c) /\ Deliver(c) /\ UNCHANGED <<lvars, cvars>>
    \/ \E c \in Channels :
          SessionRuns(c) /\ Dequeue(c) /\ UNCHANGED <<lvars, cvars>>
    \/ \E c \in Channels :
          SessionRuns(c) /\ Yield(c) /\ UNCHANGED <<lvars, cvars>>
    \/ \E c \in Channels :
          SessionRuns(c) /\ Ping(c) /\ UNCHANGED <<lvars, cvars>>

CallsSpec == Init /\ [][CallsNext]_vars

\* the requests served once lifespan has yielded
ServingNext ==
    \/ \E s \in StopResults :
          Shutdown(s) /\ StopCalled(s) /\ NotProbed
    \/ \E h \in BOOLEAN, o \in ServingProbes :
          Health(h, probe(o)) /\ Probed(o) /\ NotStopped
    \/ \E h \in BOOLEAN, o \in ServingProbes :
          Status(h, probe(o)) /\ Probed(o) /\ NotStopped
    \/ \E r \in ReadResults : ProcessBegin(r) /\ NotProbed /\ NotStopped
    \/ \E x \in ProcessResults : ProcessEnd(x) /\ NotProbed /\ NotStopped
    \/ \E r \in ReadResults : FulltextBegin(r) /\ NotProbed /\ NotStopped
    \/ \E ok \in BOOLEAN : FulltextRead(ok) /\ NotProbed /\ NotStopped
    \/ \E x \in ProcessResults : FulltextEnd(x) /\ NotProbed /\ NotStopped
    \/ RestartBegin /\ NotProbed /\ NotStopped
    \/ \E r \in Reqs, s \in StopResults :
          RestartStop(r, s) /\ StopCalled(s) /\ NotProbed
    \/ \E r \in Reqs : RestartPause(r) /\ NotProbed /\ NotStopped
    \/ \E r \in Reqs, o \in ServingProbes :
          RestartProbe(r, probe(o)) /\ Probed(o) /\ NotStopped
    \/ \E r \in Reqs, x \in SpawnResults :
          RestartSpawn(r, x) /\ NotProbed /\ NotStopped
    \/ \E r \in Reqs, p \in ExitResults :
          RestartCommunicate(r, p) /\ NotProbed /\ NotStopped
    \/ \E r \in Reqs, o \in ServingProbes :
          RestartPoll(r, probe(o)) /\ Probed(o) /\ NotStopped
    \/ \E r \in Reqs : RestartSleep(r) /\ NotProbed /\ NotStopped

\* request handling after a startup that found the backend ready: up to
\* MaxRequests restart and processing requests, served concurrently
ServingSpec == Init /\ [][ServingNext]_vars

\* the container lifecycle, from process start: the startup, then request
\* handling with up to MaxLifecycleRequests restart and processing requests
LifecycleInit == InitBroadcaster /\ InitLifecycle /\ InitCalls

LifecycleNext ==
    \/ \E o \in ProbeOutcomes :
          StartupPreCheck(probe(o)) /\ Probed(o) /\ NotStopped
    \/ \E p \in ProcResults :
          StartupComposeUp(p) /\ NotProbed /\ NotStopped
    \/ \E s \in StopResults :
          StartupAbort(s) /\ StopCalled(s) /\ NotProbed
    \/ \E o \in ProbeOutcomes :
          StartupPoll(probe(o)) /\ Probed(o) /\ NotStopped
    \/ \E o \in ProbeOutcomes :
          StartupFinalCheck(probe(o)) /\ Probed(o) /\ NotStopped
    \/ \E s \in StopResults :
          Shutdown(s) /\ StopCalled(s) /\ NotProbed
    \/ \E h \in BOOLEAN, o \in ServingProbes :
          Health(h, probe(o)) /\ Probed(o) /\ NotStopped
    \/ \E h \in BOOLEAN, o \in ServingProbes :
          Status(h, probe(o)) /\ Probed(o) /\ NotStopped
    \/ \E r \in ReadResults :
          ProcessBeginWithin(MaxLifecycleRequests, r) /\ NotProbed /\ NotStopped
    \/ \E x \in ProcessResults : ProcessEnd(x) /\ NotProbed /\ NotStopped
    \/ \E r \in ReadResults :
          FulltextBeginWithin(MaxLifecycleRequests, r) /\ NotProbed /\ NotStopped
    \/ \E ok \in BOOLEAN : FulltextRead(ok) /\ NotProbed /\ NotStopped
    \/ \E x \in ProcessResults : FulltextEnd(x) /\ NotProbed /\ NotStopped
    \/ RestartBeginWithin(MaxLifecycleRequests) /\ NotProbed /\ NotStopped
    \/ \E r \in Reqs, s \in StopResults :
          RestartStop(r, s) /\ StopCalled(s) /\ NotProbed
    \/ \E r \in Reqs : RestartPause(r) /\ NotProbed /\ NotStopped
    \/ \E r \in Reqs, o \in ServingProbes :
          RestartProbe(r, probe(o)) /\ Probed(o) /\ NotStopped
    \/ \E r \in Reqs, x \in SpawnResults :
          RestartSpawn(r, x) /\ NotProbed /\ NotStopped
    \/ \E r \in Reqs, p \in ExitResults :
          RestartCommunicate(r, p) /\ NotProbed /\ NotStopped
    \/ \E r \in Reqs, o \in ServingProbes :
          RestartPoll(r, probe(o)) /\ Probed(o) /\ NotStopped
    \/ \E r \in Reqs : RestartSleep(r) /\ NotProbed /\ NotStopped

LifecycleSpec == LifecycleInit /\ [][LifecycleNext]_vars

\* the startup wait makes progress: every probe returns within its 5 s
\* timeout and every sleep(1) returns
LifecycleFairSpec ==
    /\ LifecycleSpec
    /\ WF_vars(\E o \in ProbeOutcomes :
                  StartupPoll(probe(o)) /\ Probed(o) /\ NotStopped)
    /\ WF_vars(\E o \in ProbeOutcomes :
                  StartupFinalCheck(probe(o)) /\ Probed(o) /\ NotStopped)


(* ============================== claims ================================= *)
\* the last k elements of s, all of s when it has fewer, none when k <= 0
LastN(s, k) == IF k <= 0 THEN <<>> ELSE SubSeq(s, Max(Len(s) - k, 0) + 1, Len(s))

IsPrefix(s, t) == Len(s) <= Len(t) /\ SubSeq(t, 1, Len(s)) = s

\* what has been published since channel c was registered
Since(c) == SubSeq(published, subAt[c] + 1, Len(published))

Registered(c) == InList(c, subscribers)

\* the events a channel's session has yielded, then the one it has taken and
\* not yielded, then those in its mailbox
Stream(c) == delivered[c] \o held[c] \o queue[c]

\* the events a channel's session has taken from its mailbox
Taken(c) == delivered[c] \o held[c]

\* C1: after any sequence of emits, a history query with limit >= 0 returns
\* exactly the last min(limit, MaxHistory) published events, oldest first
\* (the limit 0 returns nothing).
C1_HistoryReturnsLastMin ==
    (last.op = "get_history" /\ last.arg >= 0)
        => last.ret = LastN(published, Min(last.arg, MaxHistory))

\* C2: an emit that finds the mailbox of a registered channel full does not
\* raise, records its event as the newest entry of history, and leaves that
\* channel out of the subscribers list.
C2_PublishDropsFullSubscriber ==
    [][last'.op = "emit" =>
        /\ ~last'.raised
        /\ history' # <<>>
        /\ history'[Len(history')] = published'[Len(published')]
        /\ \A c \in Channels :
              (Registered(c) /\ queue_full(queue[c])) => ~InList(c, subscribers')
      ]_vars

\* C2 witness: an emit has just returned after evicting a channel.
C2_Witness ==
    /\ last.op = "emit"
    /\ ~last.raised
    /\ \E c \in Channels : evictedAt[c] = Len(published) /\ ~Registered(c)

\* C3: a channel that is still registered has been given exactly the events
\* published since it was registered, each once and in publish order: what its
\* session has yielded followed by what waits in its mailbox is that sequence;
\* and what any session has yielded, followed by its mailbox, is a prefix of it.
C3_InOrderExactlyOnce ==
    \A c \in Channels :
        /\ sess[c] # "new" => IsPrefix(Stream(c), Since(c))
        /\ sess[c] # "new" => IsPrefix(delivered[c], Since(c))
        /\ Registered(c) => Stream(c) = Since(c)

\* C3 witness: a channel registered before the first emit is still registered
\* after MaxEvents emits; its session has yielded the first events in publish
\* order and its mailbox holds the last two, the older one in front.
C3_Witness ==
    \E c \in Channels :
        /\ Registered(c)
        /\ subAt[c] = 0
        /\ evictedAt[c] = 0
        /\ Len(published) = MaxEvents
        /\ delivered[c] = SubSeq(published, 1, MaxEvents - 2)
        /\ held[c] = <<>>
        /\ queue[c] = SubSeq(published, MaxEvents - 1, MaxEvents)
        /\ queue[c][1].id < queue[c][2].id

UnsubscribeOps == {"unsubscribe", "session_cancelled", "session_error"}

\* C4: an unsubscribe call never raises, never touches a mailbox (in a step
\* that ends a session the only change to a mailbox is the event the loop body
\* took from it before it failed), removes nothing but its own channel, and
\* changes nothing at all when its channel is not registered (a second call,
\* an evicted channel, a foreign handle).
C4_UnsubscribeIdempotent ==
    [][last'.op \in UnsubscribeOps =>
        /\ ~last'.raised
        /\ held' = held => queue' = queue
        /\ \A c \in Channels : Stream(c)' = Stream(c)
        /\ subscribers' = SelectSeq(subscribers, LAMBDA d : d # last'.arg)
        /\ ~Registered(last'.arg) => subscribers' = subscribers
      ]_vars

\* C4 witness: unsubscribe was called a second time for a channel that emit
\* had evicted before its session ended and unsubscribed, while another
\* channel is registered with events waiting in its mailbox.
C4_Witness ==
    /\ last.op = "unsubscribe"
    /\ last.arg \in Channels
    /\ unsubCalls[last.arg] = 1
    /\ sess[last.arg] = "closed"
    /\ evictedAt[last.arg] # 0
    /\ \E d \in Channels :
          /\ d # last.arg
          /\ Registered(d)
          /\ queue[d] # <<>>

\* the channels of a list whose mailbox is full
FullOnes(subs, q) == {c \in Channels : InList(c, subs) /\ queue_full(q[c])}

\* C5: a channel is evicted by the emit that finds its mailbox full and by no
\* other: one whose session never read is evicted by publish number
\* QueueMaxSize + 1 after its registration; that emit shrinks the subscriber
\* count by the number of full mailboxes, and every registered channel whose
\* mailbox was not full stays registered and receives the event.
C5_StateInv ==
    \A c \in Channels :
        /\ (evictedAt[c] # 0 /\ Taken(c) = <<>>)
              => evictedAt[c] = subAt[c] + QueueMaxSize + 1
        /\ evictedAt[c] # 0 => evictedAt[c] >= subAt[c] + QueueMaxSize + 1
        /\ (sess[c] = "streaming" /\ evictedAt[c] = 0) => Registered(c)
        /\ (Registered(c) /\ Taken(c) = <<>>)
              => Len(published) - subAt[c] <= QueueMaxSize

C5_EmitStep ==
    last'.op = "emit" =>
        /\ Len(subscribers') = Len(subscribers)
                                 - Cardinality(FullOnes(subscribers, queue))
        /\ \A c \in Channels :
              (Registered(c) /\ ~queue_full(queue[c]))
                  => /\ InList(c, subscribers')
                     /\ queue'[c] = Append(queue[c], published'[Len(published')])

C5_EvictionExactlyWhenFull == []C5_StateInv /\ [][C5_EmitStep]_vars

\* C5 witness: the third emit has just evicted a channel that never read,
\* while another channel stayed registered and got the evicting event.
C5_Witness ==
    /\ last.op = "emit"
    /\ \E c, d \in Channels :
          /\ c # d
          /\ Taken(c) = <<>>
          /\ evictedAt[c] = Len(published)
          /\ evictedAt[c] = subAt[c] + QueueMaxSize + 1
          /\ Registered(d)
          /\ subAt[d] = subAt[c]
          /\ Stream(d) = published
          /\ queue[d][Len(queue[d])] = last.ret[1]

\* C6: history never holds more than MaxHistory events and is always the
\* newest ones (the oldest entry is the one dropped); no mailbox ever holds
\* more than QueueMaxSize events.
C6_BoundedRetention ==
    /\ Len(history) <= MaxHistory
    /\ history = LastN(published, MaxHistory)
    /\ \A c \in Channels : Len(queue[c]) <= QueueMaxSize

\* C6 witness: more events were published than history holds, history is at
\* capacity and a mailbox is full.
C6_Witness ==
    /\ Len(published) > MaxHistory
    /\ Len(history) = MaxHistory
    /\ \E c \in Channels : Len(queue[c]) = QueueMaxSize

\* C7: a session calls unsubscribe exactly once when it ends, whichever way it
\* ends, and not before; the channel of an ended session is not registered.
C7_SessionAlwaysUnsubscribes ==
    \A c \in Channels :
        /\ sess[c] = "closed" => (unsubCalls[c] = 1 /\ ~Registered(c))
        /\ sess[c] # "closed" => unsubCalls[c] = 0

\* C7 witness: a session that was still registered has just ended by an error
\* raised inside its loop.
C7_Witness ==
    /\ last.op = "session_error"
    /\ sess[last.arg] = "closed"
    /\ evictedAt[last.arg] = 0
    /\ subAt[last.arg] < Len(published)

(* ----------------------- claims on the lifecycle ----------------------- *)
\* the startup wait left its loop at the first polled probe
FirstPollOk == broke /\ i = 0

\* the startup wait ran out of iterations: every polled probe failed
AllPollsFailed == handover # "none" /\ ~broke

\* C8 as claimed: until a restart is requested, the application accepts
\* requests only while the controller is Ready.
C8_ServesOnlyWhenReady ==
    (accepting /\ restarts = 0) => ctl = "Ready"

\* C8 amended: lifespan hands over to request handling only once the startup
\* wait and the check after it have put the controller in Ready or in Failed;
\* no request is served while the startup is in Stopped, Starting or
\* WaitingForBackend, nor after a start action that raised; requests are
\* served in Failed when the check after the wait found the backend not ready.
C8_ServesOnlyAfterWaitDecided ==
    /\ (accepting /\ restarts = 0)
          => /\ ctl \in {"Ready", "Failed"}
             /\ handover = ctl
             /\ (ctl = "Ready") = fin
    /\ lpc \in {"boot", "starting", "polling", "final", "aborting", "aborted"}
          => (lastReq = NoReq /\ handover = "none" /\ restarts = 0)

\* C8 witness: a health request was answered while the controller is Failed,
\* after a startup wait that ran out.
C8_Witness ==
    /\ accepting
    /\ restarts = 0
    /\ ctl = "Failed"
    /\ ~broke
    /\ lastReq.op = "health"

\* C9 as claimed: when the first polled probe succeeds the controller
\* reaches Ready with at most one start action, none when the backend was
\* already ready, and at most one sleep.
C9_FirstProbeGivesReady ==
    (handover # "none" /\ restarts = 0 /\ FirstPollOk)
        => /\ handover = "Ready"
           /\ starts <= 1
           /\ pre => starts = 0
           /\ sleeps <= 1

\* C9 amended: when the first polled probe succeeds the wait ends without
\* any sleep and with at most one start action, none when the probe of
\* start_containers had succeeded; the controller is then Ready exactly when
\* the check made after the loop succeeds too, and Failed otherwise.
C9_FirstProbeEndsWait ==
    (handover # "none" /\ restarts = 0 /\ FirstPollOk)
        => /\ (handover = "Ready") = fin
           /\ (handover = "Failed") = ~fin
           /\ starts <= 1
           /\ pre => starts = 0
           /\ sleeps = 0
           /\ lateProbes = 0

\* C9 witness: Ready after one start action, a first polled probe that
\* succeeded and no sleep.
C9_Witness ==
    /\ handover = "Ready"
    /\ restarts = 0
    /\ FirstPollOk
    /\ ~pre
    /\ starts = 1
    /\ sleeps = 0

\* C10 as claimed: when every polled probe of the startup wait fails the
\* controller ends in Failed, and no probe is issued once all the polling
\* intervals have been slept.
C10_TimeoutGivesFailed ==
    AllPollsFailed => (handover = "Failed" /\ lateProbes = 0)

\* C10 amended: when every polled probe fails, the startup has slept
\* StartupPolls intervals and then issues exactly one more probe, the check
\* after the loop; the controller is Failed exactly when that check fails
\* too and Ready when it succeeds; the startup never issues another probe.
C10_TimeoutThenOneLastProbe ==
    /\ AllPollsFailed
          => /\ sleeps = StartupPolls
             /\ lateProbes = 1
             /\ (handover = "Failed") = ~fin
             /\ (handover = "Ready") = fin
    /\ lateProbes <= 1
    /\ sleeps <= StartupPolls
    /\ (handover = "none" /\ lpc # "final") => lateProbes = 0

\* C10 witness: Failed after StartupPolls failed probes and as many sleeps.
C10_Witness ==
    /\ handover = "Failed"
    /\ ~broke
    /\ ~fin
    /\ sleeps = StartupPolls

C13_Inv ==
    \A c \in Channels :
        evictedAt[c] # 0 =>
            /\ ~Registered(c)
            /\ \A k \in 1..Len(Stream(c)) : Stream(c)[k].id < evictedAt[c]

C13_EmitStep ==
    (last'.op = "emit" /\ \E c \in Channels : evictedAt[c] # 0) =>
        /\ ~last'.raised
        /\ history' # <<>>
        /\ history'[Len(history')] = last'.ret[1]
        /\ \A c \in Channels :
              /\ evictedAt[c] # 0 => queue'[c] = queue[c]
              /\ (Registered(c) /\ ~queue_full(queue[c])) =>
                     /\ Registered(c)'
                     /\ queue'[c] = Append(queue[c], last'.ret[1])

\* C13: a channel that emit has evicted is never registered again, and neither
\* its mailbox nor what its session yields ever holds the event that evicted it
\* or a later one (a reconnect is a new channel); an emit made after an
\* eviction does not raise, leaves the evicted mailbox as it was, records its
\* event as the newest of history and enqueues it to every registered channel
\* whose mailbox has room.
C13_EvictedGetsNothingMore == []C13_Inv /\ [][C13_EmitStep]_vars

\* C13 witness: an emit has returned after channel c was evicted by an earlier
\* one; the session of c still runs, and the channel d registered after the
\* eviction holds the new event.
C13_Witness ==
    /\ last.op = "emit"
    /\ \E c, d \in Channels :
          /\ evictedAt[c] # 0
          /\ evictedAt[c] < Len(published)
          /\ sess[c] = "streaming"
          /\ subAt[d] >= evictedAt[c]
          /\ Registered(d)
          /\ queue[d] = <<last.ret[1]>>

\* C14 (as stated): right after a session has connected, its stream holds the
\* events of history.
C14_ReplayOnConnect ==
    \A c \in Channels :
        (last.op = "subscribe" /\ last.arg = c) => Stream(c) = history

\* C14 (amended): a session starts with the connected record and an empty
\* mailbox, and what it yields or has waiting is only ever events published
\* after it was registered; nothing held in history at connect time reaches it.
C14_OnlyLiveFeed ==
    \A c \in Channels :
        /\ sess[c] # "new" =>
              /\ ack[c] >= 1
              /\ \A k \in 1..Len(Stream(c)) : Stream(c)[k].id > subAt[c]
        /\ (last.op = "subscribe" /\ last.arg = c) => Stream(c) = <<>>

\* C14 witness: a session that connected while history held events has yielded
\* its first event, the first one published after it connected.
C14_Witness ==
    \E c \in Channels :
        /\ subAt[c] > 0
        /\ delivered[c] # <<>>
        /\ delivered[c][1].id = subAt[c] + 1

\* C15: the total of a history response is the number of events history holds,
\* min(number published, MaxHistory), whatever the limit, and is never less
\* than the number of events returned.
C15_TotalCountsHistory ==
    last.op = "get_history" =>
        /\ last.total = Len(history)
        /\ last.total = Min(Len(published), MaxHistory)
        /\ last.total >= Len(last.ret)

\* C15 witness: a query returned fewer events than history holds, history
\* being at capacity after more than MaxHistory emits.
C15_Witness ==
    /\ last.op = "get_history"
    /\ Len(last.ret) < last.total
    /\ last.total = MaxHistory
    /\ Len(published) > MaxHistory

(* ------------------- claims on the lifecycle, continued ----------------- *)
Transitioned == {"Starting", "WaitingForBackend", "Ready", "Failed"}

\* C11: once the controller has made a transition, at startup or on restart,
\* an event for it has been published and is held in history.
C11_TransitionsPublished ==
    ctl \in Transitioned => (published # <<>> /\ history # <<>>)

Conflicts == {"already in use", "Conflict"}
\* every way docker compose up fails that is not the name conflict
Fatal == ProcResults \ ({"exit0"} \cup Conflicts)

\* what a restart request does as its k-th step
RestartShape(k) ==
    IF k = 1 THEN "stop"
    ELSE IF k = 2 THEN "sleep"
    ELSE IF k = 3 THEN "start"
    ELSE "probe_fail"

RestartPrefix == Len(<<"stop", "sleep", "start">>)

\* a request in progress has stopped, slept, started and probed in that order,
\* and has not probed more than RestartPolls times
C12_Inv ==
    \A r \in Reqs :
        /\ \A k \in 1..Len(rlog[r]) : rlog[r][k] = RestartShape(k)
        /\ Len(rlog[r]) <= RestartPrefix + RestartPolls
        /\ rpc[r] \in {"polling", "sleeping"} => Len(rlog[r]) >= RestartPrefix
        /\ rpc[r] = "idle" => rlog[r] = <<>>

\* the step in which request r answers
C12_Step ==
    \A r \in Reqs :
        (rpc[r] # "idle" /\ rpc'[r] = "idle") =>
            /\ lastReq'.op = "restart"
            /\ (lastReq'.code = 200 /\ lastReq'.ready) =>
                  /\ rpc[r] = "polling"
                  /\ lastProbe'.ret
            /\ (lastReq'.code = 200 /\ ~lastReq'.ready) =>
                  /\ rlog[r] = [k \in 1..(RestartPrefix + RestartPolls) |->
                                    RestartShape(k)]
                  /\ lastProbe' = NoProbe
            /\ lastReq'.code # 200 =>
                  /\ Len(rlog[r]) = RestartPrefix
                  /\ startProc' \in Fatal

\* C12: a restart request stops, sleeps, starts and then probes, in that order
\* and at most RestartPolls times, and answers at its first successful probe;
\* when start did not raise it answers 200, with grobid_ready true at the
\* successful probe and with grobid_ready false after RestartPolls failed
\* probes; it answers with an error only when start raised, before any probe.
C12_RestartOrderAndOutcome == []C12_Inv /\ [][C12_Step]_vars

\* C12 witness: a restart has just answered 200 with grobid_ready false, its
\* last sleep over, while another restart request is in its own wait.
C12_Witness ==
    /\ lastReq = Response("restart", 200, FALSE, FALSE)
    /\ lastProbe = NoProbe
    /\ ctl = "Failed"
    /\ onyxStatus = "error"
    /\ \E r \in Reqs : rpc[r] = "polling" /\ Len(rlog[r]) > RestartPrefix

\* C16 (as stated): while the controller stands where startup left it, a
\* health response is 200 when it is Ready and 503 when it is not.
C16_HealthFollowsController ==
    (lastReq.op = "health" /\ restarts = 0 /\ lpc = "serving") =>
        /\ ctl = "Ready" => lastReq.code = 200
        /\ ctl # "Ready" => lastReq.code = 503

C16_Inv ==
    /\ lastReq.op = "health" =>
          ((lastReq.code = 200) <=> (lastReq.containers /\ lastReq.ready))
    /\ lastReq.op = "status" => lastReq.code = 200
    /\ lastReq.op \in {"health", "status"} => lastReq.ready = lastProbe.ret

C16_QueryStep ==
    lastReq'.op \in {"health", "status"} =>
        UNCHANGED <<ctl, onyxStatus, lpc, rpc, handover, starts, stops>>

\* C16 (amended): a health response is 200 exactly when the containers are
\* healthy and the probe made by that request succeeded, whatever state the
\* controller is in; a status response is always 200 and carries that probe's
\* result; neither request changes the controller's state or status.
C16_HealthFollowsProbe == []C16_Inv /\ [][C16_QueryStep]_vars

\* C16 witness: a health request was answered 200 while the controller stands
\* in Failed, where startup left it.
C16_Witness ==
    /\ lastReq.op = "health"
    /\ lastReq.code = 200
    /\ ctl = "Failed"
    /\ handover = "Failed"
    /\ restarts = 0

\* C18 (as stated): right after a docker compose up that failed with a name
\* conflict the controller goes on to the wait, at startup and in a restart;
\* right after one that failed otherwise, or could not be run, the controller
\* is Failed with the status error, startup is on its way out without having
\* polled or served, and the restart has answered 500.
C18_ConflictGoesOnOtherwiseFatal ==
    /\ (lpc # "serving" /\ startProc \in Conflicts) =>
          (lpc = "polling" /\ ctl = "WaitingForBackend")
    /\ (lpc # "serving" /\ startProc \in Fatal) =>
          /\ lpc = "aborting"
          /\ ctl = "Failed" /\ onyxStatus = "error"
          /\ handover = "none" /\ ~broke /\ sleeps = 0 /\ i = 0
    /\ (lpc = "serving" /\ startProc \in Conflicts) =>
          /\ \E r \in Reqs : rpc[r] = "polling" /\ Len(rlog[r]) = RestartPrefix
          /\ ctl = "WaitingForBackend"
    /\ (lpc = "serving" /\ startProc \in Fatal) =>
          /\ lastReq = Response("restart", 500, FALSE, FALSE)
          /\ ctl = "Failed" /\ onyxStatus = "error"

\* the text is "true" with whitespace, and nothing else, around it
PaddedTrue(text) ==
    \E m \in 0..Len(text) :
        /\ m + Len(TrueText) <= Len(text)
        /\ SubSeq(text, m + 1, m + Len(TrueText)) = TrueText
        /\ \A k \in 1..Len(text) :
              (k <= m \/ k > m + Len(TrueText)) => text[k] \in Whitespace

Probes == lastProbe.outcome.kind # "none"

\* C19 (as stated): a probe returns true exactly when the answer is a 200
\* whose body is "true", and never raises.
C19_TrueOnlyLiteralBody ==
    Probes =>
        /\ ~lastProbe.raised
        /\ lastProbe.ret <=> /\ lastProbe.outcome.kind = "response"
                             /\ lastProbe.outcome.status = 200
                             /\ lastProbe.outcome.text = TrueText

\* C19 (amended): a probe returns true exactly when the answer is a 200 whose
\* body is "true" once leading and trailing whitespace is removed; every
\* other response and every exception of the HTTP client gives false, and the
\* probe never raises.
C19_TrueIffStrippedTrue ==
    Probes =>
        /\ ~lastProbe.raised
        /\ lastProbe.ret <=> /\ lastProbe.outcome.kind = "response"
                             /\ lastProbe.outcome.status = 200
                             /\ PaddedTrue(lastProbe.outcome.text)

\* C19 witness: the startup wait was ended by a probe answered 200 with the
\* body "true" between a no-break space and a CR LF.
C19_Witness ==
    /\ lastProbe.ret
    /\ lastProbe.outcome.text = <<"U+00A0">> \o TrueText \o <<"\r", "\n">>
    /\ lpc = "final"
    /\ broke

\* C20 (as stated): a startup wait that has begun ends, with the controller
\* Ready when a polled probe succeeded (the first that does ends the wait)
\* and Failed when the polling intervals ran out; it never sleeps more than
\* StartupPolls times.
C20_ReadyAtFirstSuccess ==
    /\ (lpc = "polling") ~> (handover \in {"Ready", "Failed"})
    /\ [](/\ sleeps <= StartupPolls
          /\ i < StartupPolls
          /\ handover # "none" => ((handover = "Ready") <=> broke)
          /\ handover # "none" => ((handover = "Failed") <=> ~broke))

C20_Bounded ==
    /\ sleeps <= StartupPolls
    /\ i < StartupPolls
    /\ broke => sleeps = i
    /\ (handover # "none" /\ ~broke) => sleeps = StartupPolls
    /\ lpc = "final" => (broke \/ sleeps = StartupPolls)
    /\ handover \in {"none", "Ready", "Failed"}
    /\ handover = "Ready" => fin
    /\ handover = "Failed" => ~fin

\* C20 (amended): whatever the probes answer, a startup wait that has begun
\* ends, with the controller Ready or Failed: the loop is left at the first
\* polled probe that succeeds, every failed one being followed by one sleep,
\* or after StartupPolls sleeps; the check made after the loop then decides
\* alone: Ready when it succeeds, Failed when it fails.
C20_StartupWaitTerminates ==
    /\ (lpc = "polling") ~> (handover \in {"Ready", "Failed"})
    /\ []C20_Bounded

\* C20 witness: the wait ended on its last iteration, after StartupPolls - 1
\* sleeps, and the controller is Ready.
C20_Witness ==
    /\ handover = "Ready"
    /\ broke
    /\ i = StartupPolls - 1
    /\ sleeps = StartupPolls - 1
    /\ starts = 1

(* ------------------------- claims on the lock --------------------------- *)
\* C17: history and the subscribers list only change while the task that
\* changes them holds the lock.
C17_AllMutationsUnderLock ==
    [][(history' # history \/ subscribers' # subscribers) =>
          (lock # 0 /\ lock = cur)]_vars

\* the restart requests that have not got their stop_containers call back
Stopping == {r \in Reqs : rpc[r] = "stopping"}

\* C21: lifespan has called stop_containers exactly once when it is left,
\* whether by the shutdown after its yield or by the error of start_containers,
\* and not before (the other stops are those of restart requests, one each);
\* no call of stop_containers, whatever docker compose down did, raises to its
\* caller: lifespan is left and a restart goes on to its pause all the same.
C21_StopOnEveryExitNeverRaises ==
    /\ lpc \in {"aborted", "stopped"} => stops = restarts + 1
    /\ lpc \notin {"aborted", "stopped"} =>
          stops = restarts - Cardinality(Stopping)
    /\ lastStop.outcome \in StopResults => stops > 0
    /\ ~lastStop.raised
    /\ lpc = "aborted" => (handover = "none" /\ ctl = "Stopped")
    /\ lpc = "stopped" => (handover # "none" /\ ctl = "Stopped")

\* C21 witness: start_containers raised at startup, and the stop made by
\* lifespan's finally block failed with an exception; lifespan has been left.
C21_Witness ==
    /\ lpc = "aborted"
    /\ starts = 1
    /\ lastStop.outcome = "exception"
    /\ stops = 1
    /\ restarts = 0

\* how many times event e occurs in a sequence of events
Count(events, e) == Cardinality({k \in 1..Len(events) : events[k] = e})

\* C22: whenever another task can run (no call of the event manager is under
\* way, and no call is ever suspended part-way), every event held in history
\* that was published after a still registered channel was registered has
\* been given to that channel exactly once; in every state, no channel holds
\* an event twice or an event published before it was registered.
C22_ConsistentWhenObservable ==
    /\ \A t \in Tasks : tpc[t] # "idle" => cur = t
    /\ cur = 0 =>
          \A c \in Channels :
              Registered(c) =>
                  \A k \in 1..Len(history) :
                      history[k].id > subAt[c] =>
                          Count(Stream(c), history[k]) = 1
    /\ \A c \in Channels :
          /\ \A n \in 1..Len(published) : Count(Stream(c), published[n]) <= 1
          /\ \A k \in 1..Len(Stream(c)) : Stream(c)[k].id > subAt[c]

\* C22 witness: no call is under way; history is full; the session of a
\* channel registered before the first emit has yielded the first event, has
\* taken the second from its mailbox without having yielded it yet, and the
\* newest waits in its mailbox; a channel registered between two emits holds
\* the newest one only.
C22_Witness ==
    /\ cur = 0
    /\ Len(history) = MaxHistory
    /\ \E c, d \in Channels :
          /\ Registered(c) /\ subAt[c] = 0
          /\ sess[c] = "streaming"
          /\ delivered[c] # <<>>
          /\ held[c] # <<>>
          /\ queue[c] = <<history[Len(history)]>>
          /\ Registered(d) /\ subAt[d] > 0
          /\ Stream(d) = <<history[Len(history)]>>

=============================================================================
